---- MODULE Spec2Model ----
(***************************************************************************)
(* Model of the buzzer arbitration engine of app.py: the SQLite store      *)
(* (tables rounds and buzz_log), the write lock taken by BEGIN IMMEDIATE   *)
(* and by the implicit transaction of init_db, and the operations init_db, *)
(* attempt_buzz and reset_round, one step per SQL statement.               *)
(*                                                                         *)
(* A row id is the row's index in its table: both tables are AUTOINCREMENT *)
(* and no statement of the program deletes a row.                          *)
(***************************************************************************)
EXTENDS Integers, Sequences, FiniteSets, TLC

\* ---------------------------------------------------------------- bounds
MaxCalls == 2
MaxFaults == 1
MaxTime == 2
NumProcs == 2

\* ---------------------------------------------------------------- values
\* the sessions (script runs) that may be inside a call at the same time
Procs == 1..NumProcs

NoProc == 0

\* SQL NULL in a TEXT column, Python None as an argument
NULL == <<"NULL">>

NONE == <<"None">>

\* NULL round id / "no row" result of fetchone()
NoRow == 0

Whitespace == {" ", "\t"}

\* the texts typed into the name field
NameInputs ==
  { NONE, <<>>, <<" ">>, <<"\t", " ">>,
    <<"a">>, <<" ", "a">>, <<"b", " ">>, <<"c">> }

Times == 1..MaxTime

VARIABLES
  schema,     \* number of tables created so far: 0, 1 (rounds), 2 (+ buzz_log)
  rounds,     \* committed table rounds
  buzz_log,   \* committed table buzz_log
  lock,       \* session holding the write lock, or NoProc
  txRounds,   \* uncommitted view of rounds of the lock holder
  txLog,      \* uncommitted view of buzz_log of the lock holder
  pc,         \* position of every session
  loc,        \* locals of every session: player_name, round_id, winner_name, buzz_time
  returns,    \* what every served attempt_buzz call (won or too late) gave its caller, in order
  last,       \* what the call that ended most recently gave its caller
  inited,     \* an init_db call has completed
  seen,       \* what the page read most recently: the active round or the recent buzz log
  calls,      \* calls started
  faults      \* storage faults injected

vars == <<schema, rounds, buzz_log, lock, txRounds, txLog, pc, loc, returns, last, inited, seen,
          calls, faults>>

\* the record of what the calls returned
hist == <<returns, last, inited, seen>>

\* ------------------------------------------------------- pure helpers
\* player_name or ""
OrEmpty(x) == IF x = NONE THEN <<>> ELSE x

RECURSIVE LStrip(_)
LStrip(s) ==
  IF s = <<>> THEN s
  ELSE IF Head(s) \in Whitespace THEN LStrip(Tail(s)) ELSE s

RECURSIVE RStrip(_)
RStrip(s) ==
  IF s = <<>> THEN s
  ELSE IF s[Len(s)] \in Whitespace THEN RStrip(SubSeq(s, 1, Len(s) - 1)) ELSE s

StripNoop(s) == s

\* str.strip()
Strip(s) == RStrip(LStrip(s))

\* truth value of an optional string: `if winner_name:` / `if not player_name:`
Truthy(x) == x # NULL /\ x # NONE /\ x # <<>>

AlreadyWonNever(winner_name) == FALSE

\* if winner_name: (the call came too late)
AlreadyWon(winner_name) == Truthy(winner_name)

NewRound == [is_active |-> 1, winner_name |-> NULL, winner_time_utc |-> 0]

InsertRoundInactive(rs) == Append(rs, [NewRound EXCEPT !.is_active = 0])

\* INSERT INTO rounds (is_active) VALUES (1)
InsertRound(rs) == Append(rs, NewRound)

\* ... WHERE is_active = 0 ...
GetActiveRoundClosed(rs) ==
  IF \E i \in DOMAIN rs : rs[i].is_active = 0
  THEN CHOOSE i \in DOMAIN rs :
         rs[i].is_active = 0 /\ \A j \in DOMAIN rs : rs[j].is_active = 0 => j <= i
  ELSE NoRow

\* SELECT * FROM rounds WHERE is_active = 1 ORDER BY id DESC LIMIT 1 (the id)
GetActiveRound(rs) ==
  IF \E i \in DOMAIN rs : rs[i].is_active = 1
  THEN CHOOSE i \in DOMAIN rs :
         rs[i].is_active = 1 /\ \A j \in DOMAIN rs : rs[j].is_active = 1 => j <= i
  ELSE NoRow

\* INSERT OR REPLACE keyed on (round_id, player_name)
InsertLogUpsert(log, rid, name, t) ==
  IF \E i \in DOMAIN log : log[i].round_id = rid /\ log[i].player_name = name
  THEN [i \in DOMAIN log |->
          IF log[i].round_id = rid /\ log[i].player_name = name
          THEN [log[i] EXCEPT !.buzz_time_utc = t, !.was_winner = 0]
          ELSE log[i]]
  ELSE Append(log, [round_id |-> rid, player_name |-> name, buzz_time_utc |-> t, was_winner |-> 0])

InsertLogOncePerPlayer(log, rid, name, t) ==
  IF \E i \in DOMAIN log : log[i].round_id = rid /\ log[i].player_name = name
  THEN log
  ELSE Append(log, [round_id |-> rid, player_name |-> name, buzz_time_utc |-> t, was_winner |-> 0])

\* INSERT INTO buzz_log (round_id, player_name, buzz_time_utc, was_winner) VALUES (?, ?, ?, 0)
InsertLog(log, rid, name, t) ==
  Append(log, [round_id |-> rid, player_name |-> name, buzz_time_utc |-> t, was_winner |-> 0])

\* ... AND winner_name = NULL, which no row satisfies
ClaimWinnerEqNull(rs, rid, name, t) == rs

ClaimWinnerNameOnly(rs, rid, name, t) ==
  [i \in DOMAIN rs |->
     IF i = rid /\ rs[i].winner_name = NULL
     THEN [rs[i] EXCEPT !.winner_name = name]
     ELSE rs[i]]

\* UPDATE rounds SET winner_name = ?, winner_time_utc = ? WHERE id = ? AND winner_name IS NULL
ClaimWinner(rs, rid, name, t) ==
  [i \in DOMAIN rs |->
     IF i = rid /\ rs[i].winner_name = NULL
     THEN [rs[i] EXCEPT !.winner_name = name, !.winner_time_utc = t]
     ELSE rs[i]]

MarkWinnerFirst(log) ==
  [i \in DOMAIN log |-> IF i = 1 THEN [log[i] EXCEPT !.was_winner = 1] ELSE log[i]]

\* UPDATE buzz_log SET was_winner = 1 WHERE id = (SELECT id FROM buzz_log ORDER BY id DESC LIMIT 1)
MarkWinner(log) ==
  [i \in DOMAIN log |-> IF i = Len(log) THEN [log[i] EXCEPT !.was_winner = 1] ELSE log[i]]

DeactivateNone(rs) == rs

\* ... WHERE id = (the newest active round)
DeactivateNewest(rs) ==
  [i \in DOMAIN rs |-> IF i = GetActiveRound(rs) THEN [rs[i] EXCEPT !.is_active = 0] ELSE rs[i]]

DeactivateAndClear(rs) ==
  [i \in DOMAIN rs |->
     IF rs[i].is_active = 1
     THEN [rs[i] EXCEPT !.is_active = 0, !.winner_name = NULL, !.winner_time_utc = 0]
     ELSE rs[i]]

\* UPDATE rounds SET is_active = 0 WHERE is_active = 1
Deactivate(rs) ==
  [i \in DOMAIN rs |-> IF rs[i].is_active = 1 THEN [rs[i] EXCEPT !.is_active = 0] ELSE rs[i]]

NoLocals == [player_name |-> NULL, round_id |-> NoRow, winner_name |-> NULL, buzz_time |-> 0]

\* the text of the sqlite3.Error behind a "Database error: ..." message
NoSuchRounds == <<"no such table: rounds">>

NoSuchLog == <<"no such table: buzz_log">>

StorageFault == <<"storage fault">>

\* the value a call hands to its caller (kind "raised": an exception left the
\* call); detail is the part of the message that varies: the winner's name in
\* "Too late", the error text in "Database error"; held notes whether the call
\* was holding the write lock when it ended
Ret(p, op, kind, name, rid, detail) ==
  [op |-> op, kind |-> kind, name |-> name, round_id |-> rid, detail |-> detail,
   held |-> (lock = p)]

\* LIMIT 50 of the buzz log query of the admin page
LogLimit == 50

\* the newest LogLimit rows, newest first: SELECT ... FROM buzz_log ORDER BY id DESC LIMIT 50
RecentRows(log) ==
  [i \in 1..(IF Len(log) < LogLimit THEN Len(log) ELSE LogLimit) |-> log[Len(log) + 1 - i]]

\* the row get_active_round returns, with its id; NoRow for None
ActiveRow(rs) ==
  IF GetActiveRound(rs) = NoRow
  THEN [id |-> NoRow, is_active |-> 0, winner_name |-> NULL, winner_time_utc |-> 0]
  ELSE [id |-> GetActiveRound(rs),
        is_active |-> rs[GetActiveRound(rs)].is_active,
        winner_name |-> rs[GetActiveRound(rs)].winner_name,
        winner_time_utc |-> rs[GetActiveRound(rs)].winner_time_utc]

NothingSeen == [kind |-> "nothing", round |-> ActiveRow(<<>>), rows |-> <<>>, during |-> FALSE]

\* ------------------------------------------------------------- initial state
\* the database is in one of the states the program goes through: not there
\* yet (no table, no row); as a first run of init_db on its own leaves it (both
\* tables, one active round without a winner); as attempt_buzz("a") at time 1
\* on its own then leaves it (that round won by "a", with its buzz_log row);
\* or as two first runs of init_db leave it when session 1 has found no active
\* round (line 48) and another session's init_db has then committed its round.
\* Nobody is in a call, but for session 1 in the last of these, whose call
\* counts as begun.
Init ==
  /\ lock = NoProc
  /\ seen = NothingSeen
  /\ \/ /\ schema = 0
        /\ rounds = <<>>
        /\ buzz_log = <<>>
        /\ returns = <<>>
        /\ last = Ret(NoProc, "none", "none", NULL, NoRow, NULL)
        /\ inited = FALSE
        /\ pc = [p \in Procs |-> "idle"]
        /\ calls = 0
     \/ /\ schema = 2
        /\ rounds = <<NewRound>>
        /\ buzz_log = <<>>
        /\ returns = <<>>
        /\ last = Ret(1, "init_db", "ok", NULL, NoRow, NULL)
        /\ inited = TRUE
        /\ pc = [p \in Procs |-> "idle"]
        /\ calls = 0
     \/ /\ schema = 2
        /\ rounds = <<[is_active |-> 1, winner_name |-> <<"a">>, winner_time_utc |-> 1]>>
        /\ buzz_log = <<[round_id |-> 1, player_name |-> <<"a">>, buzz_time_utc |-> 1, was_winner |-> 1]>>
        /\ returns = <<Ret(1, "attempt_buzz", "won", <<"a">>, 1, NULL)>>
        /\ last = Ret(1, "attempt_buzz", "won", <<"a">>, 1, NULL)
        /\ inited = TRUE
        /\ pc = [p \in Procs |-> "idle"]
        /\ calls = 0
     \/ /\ schema = 2
        /\ rounds = <<NewRound>>
        /\ buzz_log = <<>>
        /\ returns = <<>>
        /\ last = Ret(1, "init_db", "ok", NULL, NoRow, NULL)
        /\ inited = TRUE
        /\ pc = [p \in Procs |-> IF p = 1 THEN "init_insert" ELSE "idle"]
        /\ calls = 1
  /\ txRounds = <<>>
  /\ txLog = <<>>
  /\ loc = [p \in Procs |-> NoLocals]
  /\ faults = 0

\* ------------------------------------------------------ transaction helpers
\* the write lock is free and p takes it; p's view starts from the committed tables
Acquire(p) ==
  /\ lock = NoProc
  /\ lock' = p
  /\ txRounds' = rounds
  /\ txLog' = buzz_log

RollbackKeep(p) ==
  /\ lock' = IF lock = p THEN NoProc ELSE lock
  /\ txRounds' = IF lock = p THEN <<>> ELSE txRounds
  /\ txLog' = IF lock = p THEN <<>> ELSE txLog
  /\ rounds' = IF lock = p THEN txRounds ELSE rounds
  /\ buzz_log' = IF lock = p THEN txLog ELSE buzz_log

RollbackHoldLock(p) ==
  /\ UNCHANGED <<lock, rounds, buzz_log>>
  /\ txRounds' = IF lock = p THEN <<>> ELSE txRounds
  /\ txLog' = IF lock = p THEN <<>> ELSE txLog

\* conn.rollback() / closing a connection with an open transaction:
\* the uncommitted view is dropped and the lock, if p holds it, is released
Rollback(p) ==
  /\ lock' = IF lock = p THEN NoProc ELSE lock
  /\ txRounds' = IF lock = p THEN <<>> ELSE txRounds
  /\ txLog' = IF lock = p THEN <<>> ELSE txLog
  /\ UNCHANGED <<rounds, buzz_log>>

\* conn.commit() of the lock holder: its view becomes the committed tables
Commit(p) ==
  /\ lock = p
  /\ rounds' = txRounds
  /\ buzz_log' = txLog
  /\ lock' = NoProc
  /\ txRounds' = <<>>
  /\ txLog' = <<>>

Return(r) ==
  /\ last' = r
  /\ returns' = IF r.kind \in {"won", "late"} THEN Append(returns, r) ELSE returns
  /\ inited' = (inited \/ (r.op = "init_db" /\ r.kind = "ok"))
  /\ UNCHANGED seen

Finish(p) ==
  /\ pc' = [pc EXCEPT ![p] = "idle"]
  /\ loc' = [loc EXCEPT ![p] = NoLocals]

Goto(p, l) == pc' = [pc EXCEPT ![p] = l]

\* p may start a call: it is idle, and it is the first idle session (idle
\* sessions hold nothing and are interchangeable)
CanStart(p) ==
  /\ pc[p] = "idle"
  /\ \A q \in Procs : q < p => pc[q] # "idle"
  /\ calls < MaxCalls

\* ------------------------------------------------------------------ init_db
\* an exception leaves init_db or reset_round: nothing catches it, the
\* connection is neither rolled back nor closed
Raise(p, op) ==
  /\ Return(Ret(p, op, "raised", NULL, NoRow, NULL))
  /\ Goto(p, "raised")
  /\ UNCHANGED <<schema, rounds, buzz_log, lock, txRounds, txLog, loc>>

\* main() runs init_db at the start of every script run
InitDb(p) ==
  /\ CanStart(p)
  /\ calls' = calls + 1
  /\ Goto(p, "init_create_rounds")
  /\ UNCHANGED <<schema, rounds, buzz_log, lock, txRounds, txLog, loc, hist, faults>>

\* CREATE TABLE IF NOT EXISTS rounds: runs outside any transaction, so it is
\* committed at once; a no-op when the table is there
InitCreateRounds(p) ==
  /\ pc[p] = "init_create_rounds"
  /\ schema >= 1 \/ lock = NoProc
  /\ schema' = IF schema >= 1 THEN schema ELSE 1
  /\ Goto(p, "init_create_log")
  /\ UNCHANGED <<rounds, buzz_log, lock, txRounds, txLog, loc, hist, calls, faults>>

\* CREATE TABLE IF NOT EXISTS buzz_log
InitCreateLog(p) ==
  /\ pc[p] = "init_create_log"
  /\ schema >= 2 \/ lock = NoProc
  /\ schema' = IF schema >= 2 THEN schema ELSE 2
  /\ Goto(p, "init_select")
  /\ UNCHANGED <<rounds, buzz_log, lock, txRounds, txLog, loc, hist, calls, faults>>

\* SELECT id FROM rounds WHERE is_active = 1 ...; row = cur.fetchone().
\* With a row, the commit that follows has no transaction to commit.
InitSelect(p) ==
  /\ pc[p] = "init_select"
  /\ IF GetActiveRound(rounds) = NoRow
     THEN /\ Goto(p, "init_insert")
          /\ UNCHANGED <<loc, hist>>
     ELSE /\ Return(Ret(p, "init_db", "ok", NULL, NoRow, NULL))
          /\ Finish(p)
  /\ UNCHANGED <<schema, rounds, buzz_log, lock, txRounds, txLog, calls, faults>>

\* if row is None: INSERT INTO rounds (is_active) VALUES (1); the sqlite3
\* module opens a transaction before the INSERT, which takes the write lock
InitInsert(p) ==
  /\ pc[p] = "init_insert"
  /\ lock = NoProc
  /\ lock' = p
  /\ txRounds' = InsertRound(rounds)
  /\ txLog' = buzz_log
  /\ Goto(p, "init_commit")
  /\ UNCHANGED <<schema, rounds, buzz_log, loc, hist, calls, faults>>

\* conn.commit(); conn.close()
InitCommit(p) ==
  /\ pc[p] = "init_commit"
  /\ Commit(p)
  /\ Return(Ret(p, "init_db", "ok", NULL, NoRow, NULL))
  /\ Finish(p)
  /\ UNCHANGED <<schema, calls, faults>>

\* a storage fault (lock timeout, I/O error) at a statement of init_db
InitFault(p) ==
  /\ pc[p] \in {"init_create_rounds", "init_create_log", "init_select", "init_insert", "init_commit"}
  /\ faults < MaxFaults
  /\ faults' = faults + 1
  /\ Raise(p, "init_db")
  /\ UNCHANGED calls

\* the connection object of a call that raised is reclaimed: sqlite closes it,
\* which rolls its open transaction back
ConnDealloc(p) ==
  /\ pc[p] = "raised"
  /\ Rollback(p)
  /\ Finish(p)
  /\ UNCHANGED <<schema, hist, calls, faults>>

\* ------------------------------------------------------------- attempt_buzz
\* except sqlite3.Error: conn.rollback(); return False, "Database error: ..."; finally conn.close()
BuzzFail(p, e) ==
  /\ Rollback(p)
  /\ Return(Ret(p, "attempt_buzz", "dberror", loc[p].player_name, NoRow, e))
  /\ Finish(p)

\* player_name = (player_name or "").strip(); if not player_name: return False, "Enter your name first."
AttemptBuzz(p, raw) ==
  /\ CanStart(p)
  /\ calls' = calls + 1
  /\ LET player_name == Strip(OrEmpty(raw)) IN
       IF ~Truthy(player_name)
       THEN /\ Return(Ret(p, "attempt_buzz", "empty", player_name, NoRow, NULL))
            /\ UNCHANGED <<pc, loc>>
       ELSE /\ Goto(p, "buzz_begin")
            /\ loc' = [loc EXCEPT ![p].player_name = player_name]
            /\ UNCHANGED hist
  /\ UNCHANGED <<schema, rounds, buzz_log, lock, txRounds, txLog, faults>>

\* cur.execute("BEGIN IMMEDIATE"): waits for the write lock
BuzzBegin(p) ==
  /\ pc[p] = "buzz_begin"
  /\ Acquire(p)
  /\ Goto(p, "buzz_select")
  /\ UNCHANGED <<schema, rounds, buzz_log, loc, hist, calls, faults>>

\* rnd = get_active_round(conn); the else branch reads round_id and winner_name
BuzzSelect(p) ==
  /\ pc[p] = "buzz_select"
  /\ IF schema < 1
     THEN /\ BuzzFail(p, NoSuchRounds)
     ELSE /\ LET rnd == GetActiveRound(txRounds) IN
               IF rnd = NoRow
               THEN /\ Goto(p, "buzz_heal")
                    /\ UNCHANGED loc
               ELSE /\ Goto(p, "buzz_log")
                    /\ loc' = [loc EXCEPT ![p].round_id = rnd,
                                          ![p].winner_name = txRounds[rnd].winner_name]
          /\ UNCHANGED <<rounds, buzz_log, lock, txRounds, txLog, hist>>
  /\ UNCHANGED <<schema, calls, faults>>

\* if rnd is None: INSERT INTO rounds (is_active) VALUES (1); round_id = cur.lastrowid; winner_name = None
BuzzHeal(p) ==
  /\ pc[p] = "buzz_heal"
  /\ txRounds' = InsertRound(txRounds)
  /\ loc' = [loc EXCEPT ![p].round_id = Len(txRounds) + 1, ![p].winner_name = NULL]
  /\ Goto(p, "buzz_log")
  /\ UNCHANGED <<schema, rounds, buzz_log, lock, txLog, hist, calls, faults>>

\* buzz_time = utc_now_iso(); the INSERT INTO buzz_log; then `if winner_name:`
BuzzLog(p) ==
  /\ pc[p] = "buzz_log"
  /\ IF schema < 2
     THEN /\ BuzzFail(p, NoSuchLog)
     ELSE /\ \E t \in Times :
               /\ txLog' = InsertLog(txLog, loc[p].round_id, loc[p].player_name, t)
               /\ loc' = [loc EXCEPT ![p].buzz_time = t]
          /\ Goto(p, IF AlreadyWon(loc[p].winner_name) THEN "buzz_commit_late" ELSE "buzz_claim")
          /\ UNCHANGED <<rounds, buzz_log, lock, txRounds, hist>>
  /\ UNCHANGED <<schema, calls, faults>>

\* the UPDATE rounds SET winner_name ... WHERE id = ? AND winner_name IS NULL
BuzzClaim(p) ==
  /\ pc[p] = "buzz_claim"
  /\ txRounds' = ClaimWinner(txRounds, loc[p].round_id, loc[p].player_name, loc[p].buzz_time)
  /\ Goto(p, "buzz_mark")
  /\ UNCHANGED <<schema, rounds, buzz_log, lock, txLog, loc, hist, calls, faults>>

\* the UPDATE buzz_log SET was_winner = 1 ...
BuzzMark(p) ==
  /\ pc[p] = "buzz_mark"
  /\ txLog' = MarkWinner(txLog)
  /\ Goto(p, "buzz_commit_win")
  /\ UNCHANGED <<schema, rounds, buzz_log, lock, txRounds, loc, hist, calls, faults>>

\* conn.commit(); return False, "Too late - {winner_name} already buzzed first."
BuzzCommitLate(p) ==
  /\ pc[p] = "buzz_commit_late"
  /\ Commit(p)
  /\ Return(Ret(p, "attempt_buzz", "late", loc[p].player_name, loc[p].round_id, loc[p].winner_name))
  /\ Finish(p)
  /\ UNCHANGED <<schema, calls, faults>>

\* conn.commit(); return True, "You buzzed in FIRST!"
BuzzCommitWin(p) ==
  /\ pc[p] = "buzz_commit_win"
  /\ Commit(p)
  /\ Return(Ret(p, "attempt_buzz", "won", loc[p].player_name, loc[p].round_id, NULL))
  /\ Finish(p)
  /\ UNCHANGED <<schema, calls, faults>>

BuzzStatements ==
  {"buzz_begin", "buzz_select", "buzz_heal", "buzz_log", "buzz_claim", "buzz_mark",
   "buzz_commit_late", "buzz_commit_win"}

\* a storage fault (sqlite3.Error) at a statement inside the try block
BuzzFault(p) ==
  /\ pc[p] \in BuzzStatements
  /\ faults < MaxFaults
  /\ faults' = faults + 1
  /\ BuzzFail(p, StorageFault)
  /\ UNCHANGED <<schema, calls>>

\* -------------------------------------------------------------- reset_round
ResetRound(p) ==
  /\ CanStart(p)
  /\ calls' = calls + 1
  /\ Goto(p, "reset_begin")
  /\ UNCHANGED <<schema, rounds, buzz_log, lock, txRounds, txLog, loc, hist, faults>>

\* cur.execute("BEGIN IMMEDIATE")
ResetBegin(p) ==
  /\ pc[p] = "reset_begin"
  /\ Acquire(p)
  /\ Goto(p, "reset_deactivate")
  /\ UNCHANGED <<schema, rounds, buzz_log, loc, hist, calls, faults>>

\* UPDATE rounds SET is_active = 0 WHERE is_active = 1 (no table: the error leaves the call)
ResetDeactivate(p) ==
  /\ pc[p] = "reset_deactivate"
  /\ IF schema < 1
     THEN /\ Raise(p, "reset_round")
     ELSE /\ txRounds' = Deactivate(txRounds)
          /\ Goto(p, "reset_insert")
          /\ UNCHANGED <<schema, rounds, buzz_log, lock, txLog, loc, hist>>
  /\ UNCHANGED <<calls, faults>>

\* INSERT INTO rounds (is_active) VALUES (1)
ResetInsert(p) ==
  /\ pc[p] = "reset_insert"
  /\ txRounds' = InsertRound(txRounds)
  /\ Goto(p, "reset_commit")
  /\ UNCHANGED <<schema, rounds, buzz_log, lock, txLog, loc, hist, calls, faults>>

\* conn.commit(); conn.close(); returns None
ResetCommit(p) ==
  /\ pc[p] = "reset_commit"
  /\ Commit(p)
  /\ Return(Ret(p, "reset_round", "ok", NULL, NoRow, NULL))
  /\ Finish(p)
  /\ UNCHANGED <<schema, calls, faults>>

\* a storage fault at a statement of reset_round: there is no try block
ResetFault(p) ==
  /\ pc[p] \in {"reset_begin", "reset_deactivate", "reset_insert", "reset_commit"}
  /\ faults < MaxFaults
  /\ faults' = faults + 1
  /\ Raise(p, "reset_round")
  /\ UNCHANGED calls

\* -------------------------------------------------------------------- pages
ReaderRoundsDirty == IF lock = NoProc THEN rounds ELSE txRounds

\* the table rounds as a statement on a connection of its own, outside the
\* writer's transaction, reads it: the committed rows
ReaderRounds == rounds

ReaderLogDirty == IF lock = NoProc THEN buzz_log ELSE txLog

\* the table buzz_log as such a statement reads it
ReaderLog == buzz_log

\* a writer has uncommitted changes
WriteInFlight == lock # NoProc /\ (txRounds # rounds \/ txLog # buzz_log)

\* page_player / page_admin: conn = get_conn(); rnd = get_active_round(conn)
ReadActiveRound(p) ==
  /\ CanStart(p)
  /\ schema >= 1
  /\ calls' = calls + 1
  /\ seen' = [kind |-> "round", round |-> ActiveRow(ReaderRounds), rows |-> <<>>,
               during |-> WriteInFlight]
  /\ UNCHANGED <<schema, rounds, buzz_log, lock, txRounds, txLog, pc, loc, returns, last, inited,
                  faults>>

\* page_admin: the SELECT ... FROM buzz_log ORDER BY id DESC LIMIT 50; rows = cur.fetchall()
ReadRecentLog(p) ==
  /\ CanStart(p)
  /\ schema >= 2
  /\ calls' = calls + 1
  /\ seen' = [kind |-> "log", round |-> ActiveRow(<<>>), rows |-> RecentRows(ReaderLog),
               during |-> WriteInFlight]
  /\ UNCHANGED <<schema, rounds, buzz_log, lock, txRounds, txLog, pc, loc, returns, last, inited,
                  faults>>

\* ------------------------------------------------------------ specification
Next ==
  \E p \in Procs :
    \/ InitDb(p)
    \/ InitCreateRounds(p)
    \/ InitCreateLog(p)
    \/ InitSelect(p)
    \/ InitInsert(p)
    \/ InitCommit(p)
    \/ InitFault(p)
    \/ ConnDealloc(p)
    \/ \E raw \in NameInputs : AttemptBuzz(p, raw)
    \/ BuzzBegin(p)
    \/ BuzzSelect(p)
    \/ BuzzHeal(p)
    \/ BuzzLog(p)
    \/ BuzzClaim(p)
    \/ BuzzMark(p)
    \/ BuzzCommitLate(p)
    \/ BuzzCommitWin(p)
    \/ BuzzFault(p)
    \/ ResetRound(p)
    \/ ResetBegin(p)
    \/ ResetDeactivate(p)
    \/ ResetInsert(p)
    \/ ResetCommit(p)
    \/ ResetFault(p)
    \/ ReadActiveRound(p)
    \/ ReadRecentLog(p)

Spec == Init /\ [][Next]_vars

\* the statement a running call of p is at: each call runs in its own thread and
\* executes its next statement once nothing blocks it; a connection left open
\* by an exception is reclaimed with the objects of the script run
Progress(p) ==
  \/ InitCreateRounds(p) \/ InitCreateLog(p) \/ InitSelect(p)
  \/ InitInsert(p) \/ InitCommit(p) \/ ConnDealloc(p)
  \/ BuzzBegin(p) \/ BuzzSelect(p) \/ BuzzHeal(p) \/ BuzzLog(p)
  \/ BuzzClaim(p) \/ BuzzMark(p) \/ BuzzCommitLate(p) \/ BuzzCommitWin(p)
  \/ ResetBegin(p) \/ ResetDeactivate(p) \/ ResetInsert(p) \/ ResetCommit(p)

\* fair scheduling of the running calls; starting a call and faults stay optional
FairSpec == Spec /\ \A p \in Procs : WF_vars(Progress(p))

TypeOK ==
  /\ schema \in 0..2
  /\ lock \in Procs \cup {NoProc}
  /\ calls \in 0..MaxCalls
  /\ faults \in 0..MaxFaults
  /\ \A i \in DOMAIN rounds : rounds[i].is_active \in {0, 1}
  /\ \A i \in DOMAIN buzz_log : buzz_log[i].was_winner \in {0, 1}

\* ------------------------------------------------------- derived notions
ActiveRounds == {r \in DOMAIN rounds : rounds[r].is_active = 1}

\* the attempt_buzz calls that were served against round r (won or too late)
Served(r) ==
  {i \in DOMAIN returns :
     /\ returns[i].op = "attempt_buzz"
     /\ returns[i].kind \in {"won", "late"}
     /\ returns[i].round_id = r}

LogRows(r) == {i \in DOMAIN buzz_log : buzz_log[i].round_id = r}

WinnerRows(r) == {i \in LogRows(r) : buzz_log[i].was_winner = 1}

HasWinner(r) == rounds[r].winner_name # NULL \/ rounds[r].winner_time_utc # 0

\* None, empty or whitespace only
Blank(raw) == raw = NONE \/ \A i \in DOMAIN raw : raw[i] \in Whitespace

\* ------------------------------------------------------------------ claims
\* C1 (single winner): of the attempt_buzz calls served against one round,
\* exactly one returned won = true, and every other one returned won = false
\* with a "Too late" message that names that winner.
C1_SingleWinner ==
  \A r \in DOMAIN rounds :
    Served(r) # {} =>
      \E w \in Served(r) :
        /\ returns[w].kind = "won"
        /\ \A j \in Served(r) \ {w} :
             returns[j].kind = "late" /\ returns[j].detail = returns[w].name

\* three calls with distinct names were served against one round
C1_Witness ==
  \E r \in DOMAIN rounds :
    /\ Cardinality(Served(r)) >= 3
    /\ \A i, j \in Served(r) : i # j => returns[i].name # returns[j].name

\* C2 (invariant I1): once a first init_db has completed, exactly one round
\* has is_active = 1.
C2_ExactlyOneActive == inited => Cardinality(ActiveRounds) = 1

\* C3 (winner consistency): a round whose winner fields are set has exactly one
\* buzz_log row with was_winner = 1, and that row carries the round's
\* winner_name and winner_time_utc.
C3_WinnerConsistent ==
  \A r \in DOMAIN rounds :
    HasWinner(r) =>
      /\ Cardinality(WinnerRows(r)) = 1
      /\ \A i \in WinnerRows(r) :
           /\ buzz_log[i].player_name = rounds[r].winner_name
           /\ buzz_log[i].buzz_time_utc = rounds[r].winner_time_utc

\* a second round has got its winner after the first round got one
C3_Witness ==
  \E r1, r2 \in DOMAIN rounds : r1 < r2 /\ HasWinner(r1) /\ HasWinner(r2)

\* C4 (write-once winner): no step changes or clears the winner_name and
\* winner_time_utc of a round that has a winner, and the round stays.
C4_WriteOnce ==
  [][\A r \in DOMAIN rounds :
       rounds[r].winner_name # NULL =>
         /\ r \in DOMAIN rounds'
         /\ rounds'[r].winner_name = rounds[r].winner_name
         /\ rounds'[r].winner_time_utc = rounds[r].winner_time_utc]_vars

\* a decided round has been through a reset and a later buzz was served
C4_Witness ==
  \E r \in DOMAIN rounds :
    /\ rounds[r].winner_name # NULL
    /\ rounds[r].is_active = 0
    /\ \E r2 \in DOMAIN rounds : r2 > r /\ Served(r2) # {}

\* C5 (logging completeness): every round has as many buzz_log rows as
\* attempt_buzz calls were served against it (won or too late), and a call
\* that is served adds exactly one row.
C5_LogComplete ==
  /\ \A r \in DOMAIN rounds : Cardinality(LogRows(r)) = Cardinality(Served(r))
  /\ \A i \in DOMAIN buzz_log : buzz_log[i].round_id \in DOMAIN rounds

\* a player was served twice against the same round, and a call that ended
\* with a database error has added nothing
C5_Witness ==
  /\ \E r \in DOMAIN rounds :
       \E i, j \in Served(r) : i # j /\ returns[i].name = returns[j].name
  /\ last.op = "attempt_buzz"
  /\ last.kind = "dberror"

\* C6 (rollback on fault): a storage fault at a statement of attempt_buzz makes
\* the call return won = false with "Database error"; no step of the call but
\* the commit of a served call changes the committed tables, so a call that
\* returns "Database error" leaves them as they were, and it holds no lock.
C6_FaultRollsBack ==
  [][\A p \in Procs :
       (pc[p] \in BuzzStatements /\ pc'[p] # pc[p]) =>
         /\ faults' # faults => (pc'[p] = "idle" /\ last'.kind = "dberror")
         /\ (pc'[p] # "idle" \/ last'.kind \notin {"won", "late"}) =>
              /\ rounds' = rounds
              /\ buzz_log' = buzz_log
              /\ returns' = returns
         /\ (pc'[p] = "idle" /\ last'.kind = "dberror") =>
              /\ last'.op = "attempt_buzz"
              /\ lock' # p]_vars

\* a call has just ended with the database error of the INSERT INTO buzz_log
\* (only the table rounds existed) and the table rounds is empty: the call had
\* inserted its own round before, and that round is not there
C6_Witness ==
  /\ last.op = "attempt_buzz"
  /\ last.kind = "dberror"
  /\ last.detail = NoSuchLog
  /\ rounds = <<>>
  /\ lock = NoProc

\* C7 (reset creates fresh state): the step that commits a reset_round leaves
\* an active round without winner whose id is greater than that of the round
\* active before, and every round active before is still there, now with
\* is_active = 0, its winner fields and the buzz_log unchanged.
C7_ResetFresh ==
  [][\A p \in Procs :
       (pc[p] = "reset_commit" /\ pc'[p] = "idle") =>
         LET new == GetActiveRound(rounds') IN
           /\ new # NoRow
           /\ new \notin DOMAIN rounds
           /\ new > GetActiveRound(rounds)
           /\ rounds'[new].winner_name = NULL
           /\ rounds'[new].winner_time_utc = 0
           /\ \A r \in DOMAIN rounds :
                /\ r \in DOMAIN rounds'
                /\ rounds'[r] = [rounds[r] EXCEPT !.is_active = 0]
           /\ buzz_log' = buzz_log]_vars

\* a reset_round has just returned, and the round it closed had a winner
C7_Witness ==
  /\ last.op = "reset_round"
  /\ last.kind = "ok"
  /\ \E r \in DOMAIN rounds :
       /\ rounds[r].is_active = 0
       /\ rounds[r].winner_name # NULL
       /\ r + 1 = GetActiveRound(rounds)

\* C8 (empty-name rejection): attempt_buzz with a name that is None, empty or
\* whitespace only returns "Enter your name first." and changes nothing: no
\* lock, no transaction, no round, no buzz_log row.
C8_EmptyNameRejected ==
  [][\A p \in Procs : \A raw \in NameInputs :
       (CanStart(p) /\ Blank(raw) /\ AttemptBuzz(p, raw)) =>
         /\ last' = Ret(p, "attempt_buzz", "empty", <<>>, NoRow, NULL)
         /\ returns' = returns
         /\ pc'[p] = "idle"
         /\ UNCHANGED <<schema, rounds, buzz_log, lock, txRounds, txLog>>]_vars

\* a blank name was rejected while the tables existed and no round was active
C8_Witness ==
  /\ last.op = "attempt_buzz"
  /\ last.kind = "empty"
  /\ schema = 2
  /\ ActiveRounds = {}

\* C9 (ordering): the row with was_winner = 1 of a round is the row with the
\* smallest id of that round, and a round with a winner has such a row.
C9_WinnerIsFirst ==
  /\ \A i \in DOMAIN buzz_log :
       buzz_log[i].was_winner = 1 =>
         \A j \in DOMAIN buzz_log : j < i => buzz_log[j].round_id # buzz_log[i].round_id
  /\ \A r \in DOMAIN rounds :
       HasWinner(r) =>
         \E i \in LogRows(r) :
           /\ buzz_log[i].was_winner = 1
           /\ \A j \in LogRows(r) : i <= j

\* a round has a winner row and two later rows of losers
C9_Witness ==
  \E r \in DOMAIN rounds :
    /\ Cardinality(WinnerRows(r)) = 1
    /\ Cardinality(LogRows(r)) >= 3

\* C10 (failures are values): no attempt_buzz call and no reset_round call ends
\* with an exception leaving the operation.
C10_NoUncaughtFault ==
  last.op \in {"attempt_buzz", "reset_round"} => last.kind # "raised"

\* C11 (a failed buzz does not block later buzzers): a session that is not in
\* a call holds no write lock, and a free lock leaves no uncommitted view
\* behind, so a call waiting at BEGIN IMMEDIATE after a failed attempt_buzz
\* finds the lock free and the tables as they were committed.
C11_FailedBuzzFreesLock ==
  /\ \A p \in Procs : pc[p] = "idle" => lock # p
  /\ lock = NoProc => (txRounds = <<>> /\ txLog = <<>>)
  /\ (last.op = "attempt_buzz" /\ last.kind = "dberror" /\ last.held) =>
       \A p \in Procs : lock = p => pc[p] # "idle"

\* an attempt_buzz failed while it held the lock, and another call has since
\* taken the lock and is about to commit its win
C11_Witness ==
  /\ last.op = "attempt_buzz"
  /\ last.kind = "dberror"
  /\ last.held
  /\ \E q \in Procs : lock = q /\ pc[q] = "buzz_commit_win"

\* every loser row that was read comes after a winner row of its round
RowsWhole(rows) ==
  \A i \in DOMAIN rows :
    rows[i].was_winner = 0 =>
      \E j \in DOMAIN rows :
        j > i /\ rows[j].round_id = rows[i].round_id /\ rows[j].was_winner = 1

\* C12 (readers see no partial transaction): a read of the active round gives
\* the committed active round, never none once init_db has completed and never
\* half a winner; a read of the recent buzz log gives the committed rows, in
\* which no round has a row before its winner row.
C12_ReadersSeeCommitted ==
  [][\A p \in Procs :
       /\ ReadActiveRound(p) =>
            /\ seen'.round = ActiveRow(rounds)
            /\ inited => seen'.round.id # NoRow
            /\ (seen'.round.winner_name = NULL) <=> (seen'.round.winner_time_utc = 0)
       /\ ReadRecentLog(p) =>
            /\ seen'.rows = RecentRows(buzz_log)
            /\ RowsWhole(seen'.rows)]_vars

\* the page read the buzz log while a writer had uncommitted changes, and the
\* writer, about to commit its win, holds a row the page did not get
C12_Witness ==
  /\ seen.kind = "log"
  /\ seen.during
  /\ \E q \in Procs : lock = q /\ pc[q] = "buzz_commit_win"
  /\ Len(seen.rows) < Len(txLog)

\* C13 (the winner flag goes to the caller's own row): the statement that
\* sets was_winner = 1 changes one row only, the row this call inserted in
\* this transaction for its round, player and time; and the commit of a
\* winning call adds that flagged row and leaves every earlier row as it was.
C13_MarksOwnRow ==
  [][\A p \in Procs :
       /\ (pc[p] = "buzz_mark" /\ pc'[p] = "buzz_commit_win") =>
            LET own == Len(txLog) IN
              /\ own = Len(buzz_log) + 1
              /\ txLog[own].round_id = loc[p].round_id
              /\ txLog[own].player_name = loc[p].player_name
              /\ txLog[own].buzz_time_utc = loc[p].buzz_time
              /\ txLog' = [txLog EXCEPT ![own].was_winner = 1]
       /\ (pc[p] = "buzz_commit_win" /\ pc'[p] = "idle" /\ last'.kind = "won") =>
            /\ Len(buzz_log') = Len(buzz_log) + 1
            /\ SubSeq(buzz_log', 1, Len(buzz_log)) = buzz_log
            /\ buzz_log'[Len(buzz_log')] =
                 [round_id |-> last'.round_id, player_name |-> last'.name,
                  buzz_time_utc |-> loc[p].buzz_time, was_winner |-> 1]]_vars

\* a call has just won a round while the buzz log held a row of an earlier round
C13_Witness ==
  /\ last.op = "attempt_buzz"
  /\ last.kind = "won"
  /\ Len(buzz_log) >= 2
  /\ buzz_log[Len(buzz_log)].round_id = last.round_id
  /\ buzz_log[1].round_id # last.round_id

\* C14 (invariant I3): a round has at most one buzz_log row with
\* was_winner = 1, and none while it has no winner; every row with
\* was_winner = 1 belongs to a round whose winner_name and winner_time_utc are
\* that row's player_name and buzz_time_utc.
C14_AtMostOneWinnerRow ==
  /\ \A r \in DOMAIN rounds :
       /\ Cardinality(WinnerRows(r)) <= 1
       /\ rounds[r].winner_name = NULL => WinnerRows(r) = {}
  /\ \A i \in DOMAIN buzz_log :
       buzz_log[i].was_winner = 1 =>
         /\ buzz_log[i].round_id \in DOMAIN rounds
         /\ rounds[buzz_log[i].round_id].winner_name = buzz_log[i].player_name
         /\ rounds[buzz_log[i].round_id].winner_time_utc = buzz_log[i].buzz_time_utc

\* a decided round has a winner row and a loser row, and the round after it
\* is open with no row
C14_Witness ==
  \E r \in DOMAIN rounds :
    /\ Cardinality(WinnerRows(r)) = 1
    /\ Cardinality(LogRows(r)) >= 2
    /\ r + 1 \in DOMAIN rounds
    /\ rounds[r + 1].winner_name = NULL
    /\ LogRows(r + 1) = {}

\* C15 (self-healing): a call that finds no active round goes on to insert
\* one, active and without winner, in its own transaction and takes its id;
\* such a call never takes the "too late" branch, and when it commits it has
\* won: the new round is active and carries the caller as winner, and the
\* caller's row is logged against it.
C15_SelfHealing ==
  [][\A p \in Procs :
       /\ (pc[p] = "buzz_select" /\ pc'[p] # pc[p] /\ schema >= 1 /\ faults' = faults) =>
            (pc'[p] = "buzz_heal" <=> GetActiveRound(rounds) = NoRow)
       /\ (pc[p] = "buzz_heal" /\ pc'[p] = "buzz_log") =>
            /\ txRounds' = Append(txRounds, NewRound)
            /\ loc'[p].round_id = Len(txRounds) + 1
            /\ loc'[p].round_id \notin DOMAIN rounds
            /\ loc'[p].winner_name = NULL
       /\ (loc[p].round_id # NoRow /\ loc[p].round_id \notin DOMAIN rounds) =>
            /\ pc'[p] # "buzz_commit_late"
            /\ (pc'[p] = "idle" /\ last'.kind # "dberror") =>
                 /\ last' = Ret(p, "attempt_buzz", "won", loc[p].player_name, loc[p].round_id, NULL)
                 /\ rounds'[loc[p].round_id] =
                      [is_active |-> 1, winner_name |-> loc[p].player_name,
                       winner_time_utc |-> loc[p].buzz_time]
                 /\ buzz_log'[Len(buzz_log')].round_id = loc[p].round_id
                 /\ buzz_log'[Len(buzz_log')].player_name = loc[p].player_name]_vars

\* no init_db has completed, the tables are there, and a call has just won the
\* only round there is: the round it inserted itself
C15_Witness ==
  /\ ~inited
  /\ last.op = "attempt_buzz"
  /\ last.kind = "won"
  /\ last.round_id = 1
  /\ Len(rounds) = 1
  /\ rounds[1].is_active = 1
  /\ rounds[1].winner_name = last.name
  /\ Len(buzz_log) = 1

\* C16 (won only if the claim took effect): the conditional UPDATE of a call
\* always finds its round without winner and sets the round's winner fields to
\* the caller's name and time; a call that returns won = true leaves the
\* committed round with exactly these fields; a call that returns "too late"
\* names the winner the committed round has.
C16_WonOnlyIfClaimed ==
  [][\A p \in Procs :
       /\ (pc[p] = "buzz_claim" /\ pc'[p] = "buzz_mark") =>
            /\ txRounds[loc[p].round_id].winner_name = NULL
            /\ txRounds' # txRounds
            /\ txRounds'[loc[p].round_id].winner_name = loc[p].player_name
            /\ txRounds'[loc[p].round_id].winner_time_utc = loc[p].buzz_time
       /\ (pc[p] = "buzz_commit_win" /\ pc'[p] = "idle" /\ last'.kind = "won") =>
            /\ last'.name = loc[p].player_name
            /\ last'.round_id = loc[p].round_id
            /\ rounds'[loc[p].round_id].winner_name = loc[p].player_name
            /\ rounds'[loc[p].round_id].winner_time_utc = loc[p].buzz_time
       /\ (pc[p] = "buzz_commit_late" /\ pc'[p] = "idle" /\ last'.kind = "late") =>
            /\ last'.detail # NULL
            /\ last'.detail = rounds'[loc[p].round_id].winner_name
            /\ rounds'[loc[p].round_id] = rounds[loc[p].round_id]]_vars

\* a call has just been told "too late" with the name of the call that won the
\* round before it
C16_Witness ==
  /\ last.op = "attempt_buzz"
  /\ last.kind = "late"
  /\ last.detail # last.name
  /\ \E i \in DOMAIN returns :
       /\ returns[i].kind = "won"
       /\ returns[i].round_id = last.round_id
       /\ returns[i].name = last.detail
       /\ rounds[last.round_id].winner_name = returns[i].name

\* C17 (no lock outlives its call): when an attempt_buzz or reset_round call
\* that held the write lock has ended, by a return or by an exception, no
\* session whose call has ended holds the write lock.
C17_LockFreedAtEnd ==
  (last.op \in {"attempt_buzz", "reset_round"} /\ last.held) =>
    \A p \in Procs : lock = p => pc[p] \notin {"idle", "raised"}

\* C17 (progress): under fair scheduling every running call ends, and every
\* call waiting at BEGIN IMMEDIATE gets the write lock or ends with an error.
C17_EveryCallEnds ==
  \A p \in Procs :
    /\ (pc[p] \notin {"idle", "raised"}) ~> (pc[p] \in {"idle", "raised"})
    /\ (pc[p] \in {"buzz_begin", "reset_begin"}) ~>
         (lock = p \/ pc[p] \in {"idle", "raised"})

\* C18 (buzz_log is append-only): no step removes or changes a committed
\* buzz_log row; inside a transaction no row is removed, round_id, player_name
\* and buzz_time_utc of a row never change, and was_winner only goes from 0 to
\* 1, and only on a row this transaction inserted.
C18_LogAppendOnly ==
  [][/\ Len(buzz_log') >= Len(buzz_log)
     /\ \A i \in DOMAIN buzz_log : buzz_log'[i] = buzz_log[i]
     /\ (lock # NoProc /\ lock' = lock) =>
          /\ Len(txLog') >= Len(txLog)
          /\ Len(txLog) >= Len(buzz_log)
          /\ \A i \in DOMAIN txLog :
               /\ txLog'[i].round_id = txLog[i].round_id
               /\ txLog'[i].player_name = txLog[i].player_name
               /\ txLog'[i].buzz_time_utc = txLog[i].buzz_time_utc
               /\ txLog'[i].was_winner # txLog[i].was_winner =>
                    /\ txLog[i].was_winner = 0
                    /\ txLog'[i].was_winner = 1
                    /\ i > Len(buzz_log)
     /\ (lock # NoProc /\ lock' = NoProc) =>
          \/ buzz_log' = buzz_log
          \/ /\ buzz_log' = txLog
             /\ \A i \in DOMAIN buzz_log : txLog[i] = buzz_log[i]]_vars

\* a second round's winner has committed its row after the first round's
\* winner row, and the first round has been closed since that row was written
C18_Witness ==
  /\ Len(buzz_log) = 2
  /\ buzz_log[1].was_winner = 1
  /\ buzz_log[2].was_winner = 1
  /\ buzz_log[1].round_id # buzz_log[2].round_id
  /\ rounds[buzz_log[1].round_id].is_active = 0
  /\ last.op = "attempt_buzz"

\* C19 (reset restores the single active round): when reset_round commits,
\* the committed rounds are the earlier ones, all with is_active = 0 and
\* otherwise unchanged, followed by one new round, so that exactly one round
\* has is_active = 1 and it has the highest id, however many rounds were
\* active before.
C19_ResetRestoresSingleActive ==
  [][\A p \in Procs :
       (pc[p] = "reset_commit" /\ pc'[p] = "idle") =>
         /\ Len(rounds') = Len(rounds) + 1
         /\ {i \in DOMAIN rounds' : rounds'[i].is_active = 1} = {Len(rounds')}
         /\ rounds'[Len(rounds')] = NewRound
         /\ \A i \in DOMAIN rounds : rounds'[i] = [rounds[i] EXCEPT !.is_active = 0]
         /\ GetActiveRound(rounds') = Len(rounds')]_vars

\* reset_round has run its statements over two rounds that are both active
\* and is at its commit: in its view both are closed and the third round is
\* the one active round
C19_Witness ==
  \E p \in Procs :
    /\ pc[p] = "reset_commit"
    /\ lock = p
    /\ Cardinality(ActiveRounds) = 2
    /\ Len(txRounds) = Len(rounds) + 1
    /\ {i \in DOMAIN txRounds : txRounds[i].is_active = 1} = {Len(txRounds)}

\* reset_round has committed on a database whose rounds table was empty
C19_WitnessNoneActive ==
  /\ last.op = "reset_round"
  /\ last.kind = "ok"
  /\ ~inited
  /\ rounds = <<NewRound>>

\* C20 (rows refer to the round active at commit): every committed buzz_log
\* row refers to a round that exists; when an attempt_buzz commits, the row it
\* adds refers to the round that is then the active round with the highest id,
\* and a winner is only claimed on a round that is active in the caller's
\* transaction.
C20_LoggedAgainstActiveRound ==
  [][/\ \A i \in DOMAIN buzz_log' : buzz_log'[i].round_id \in DOMAIN rounds'
     /\ \A p \in Procs :
          /\ (pc[p] \in {"buzz_commit_late", "buzz_commit_win"} /\ pc'[p] = "idle"
                /\ last'.kind \in {"won", "late"}) =>
               LET rid == loc[p].round_id IN
                 /\ rid \in DOMAIN rounds'
                 /\ rounds'[rid].is_active = 1
                 /\ \A j \in DOMAIN rounds' : rounds'[j].is_active = 1 => j <= rid
                 /\ Len(buzz_log') = Len(buzz_log) + 1
                 /\ buzz_log'[Len(buzz_log')].round_id = rid
          /\ (pc[p] = "buzz_claim" /\ pc'[p] = "buzz_mark") =>
               /\ txRounds[loc[p].round_id].is_active = 1
               /\ \A j \in DOMAIN txRounds : txRounds[j].is_active = 1 => j <= loc[p].round_id]_vars

\* an attempt_buzz that has logged and claimed in the active round is about to
\* commit while a reset_round waits for the write lock
C20_Witness ==
  \E p, q \in Procs :
    /\ pc[p] = "buzz_commit_win"
    /\ lock = p
    /\ pc[q] = "reset_begin"
    /\ txLog # <<>>
    /\ txLog[Len(txLog)].round_id = loc[p].round_id
    /\ txRounds[loc[p].round_id].is_active = 1
    /\ txRounds[loc[p].round_id].winner_name = loc[p].player_name

====
